---- MODULE Spec2Model ----
(***************************************************************************)
(* Model of the glouton IR optimisation passes (src/src/optim.rs) over the *)
(* instruction data model of src/src/instruction.rs.                       *)
(*                                                                         *)
(* Spec    : a function is handed to DCE::run twice in succession; every   *)
(*           step is one whole call of DCE::tdce.                          *)
(* SpecLVN : a function of a few basic blocks is handed to LVN::run.        *)
(* SpecPool: nodes are added to the ExprPool and StmtPool of src/src/ast.rs.*)
(* SpecFmt : the instructions of a function are rendered by Display.       *)
(***************************************************************************)
EXTENDS Integers, Sequences, FiniteSets

VARIABLES
    function,   \* ir::Function: the instruction sequence being rewritten
    input,      \* the function as it was handed to the first pass
    pc,         \* "idle" | "loop" (inside DCE::run) | "lvn_done"
    run,        \* how many DCE::run calls have been started
    calls,      \* tdce calls made so far by the current DCE::run
    ret,        \* return value of the last tdce call
    prev,       \* the function as it was before the last tdce / LVN call
    used,       \* use_defs as built by the last tdce call
    once,       \* the function as the first DCE::run left it
    expr_pool,  \* ExprPool.nodes
    stmt_pool,  \* StmtPool.nodes
    added,      \* every add call so far: the pool, the handle returned, the node
    text        \* the rendering of each instruction of the function

vars == <<function, input, pc, run, calls, ret, prev, used, once,
          expr_pool, stmt_pool, added, text>>

----------------------------------------------------------------------------
\* Bounds of the model.

MaxLen == 3

MaxRuns == 2

MaxNodes == 3

----------------------------------------------------------------------------
\* Data model: Type, Literal, Symbol, Value, Instruction.

\* Symbol = (String, Type)
Sym(name, type) == [name |-> name, type |-> type]

NoSym == Sym("", "Unit")

\* Literal::Int(i32) and Literal::Empty
IntLit(n) == [tag |-> "Int", val |-> n]

Empty == [tag |-> "Empty", val |-> 0]

\* enum Value
StorageLocation(s) == [kind |-> "StorageLocation", sym |-> s, lit |-> Empty]

ConstantLiteral(l) == [kind |-> "ConstantLiteral", sym |-> NoSym, lit |-> l]

\* enum Instruction: one record shape for every variant.  sym is the Symbol
\* field of the variant (destination, call target or branch condition), vals
\* its Value fields in order, lit its Literal, labels its Label fields.
Inst(op, s, vs, l, ls) == [op |-> op, sym |-> s, vals |-> vs, lit |-> l, labels |-> ls]

Const(dst, l) == Inst("Const", dst, <<>>, l, <<>>)

Binary(op, dst, lhs, rhs) == Inst(op, dst, <<lhs, rhs>>, Empty, <<>>)

Add(dst, lhs, rhs) == Binary("Add", dst, lhs, rhs)

Div(dst, lhs, rhs) == Binary("Div", dst, lhs, rhs)

Not(dst, operand) == Inst("Not", dst, <<operand>>, Empty, <<>>)

Id(dst, value) == Inst("Id", dst, <<value>>, Empty, <<>>)

Return(value) == Inst("Return", NoSym, <<value>>, Empty, <<>>)

Call(target, args) == Inst("Call", target, args, Empty, <<>>)

Jump(target) == Inst("Jump", NoSym, <<>>, Empty, <<target>>)

Branch(cond, then_target, else_target) == Inst("Branch", cond, <<>>, Empty, <<then_target, else_target>>)

Label(addr) == Inst("Label", NoSym, <<>>, Empty, <<addr>>)

Nop == Inst("Nop", NoSym, <<>>, Empty, <<>>)

BinaryOps == {"Add", "Sub", "Mul", "Div", "And", "Or", "Eq", "Neq", "Lt", "Lte", "Gt", "Gte"}

UnaryOps == {"Not", "Neg"}

\* Option<T>: None is the empty sequence, Some(x) the one-element sequence.
None == <<>>

Some(x) == <<x>>

----------------------------------------------------------------------------
\* Accessors of ir::Instruction and ir::Function that optim.rs calls.

\* Instruction::operands() -> (Option<&Value>, Option<&Value>): up to two
\* source values.  A Branch yields its condition and a Return its value (the
\* expected output of can_trivially_dce_dead_store_in_different_blocks keeps
\* the definitions they read); a Call yields its first two arguments.
operands(inst) ==
    CASE inst.op \in BinaryOps -> <<Some(inst.vals[1]), Some(inst.vals[2])>>
      [] inst.op \in UnaryOps \cup {"Id", "Return"} -> <<Some(inst.vals[1]), None>>
      [] inst.op = "Branch" -> <<Some(StorageLocation(inst.sym)), None>>
      [] inst.op = "Call" ->
           <<IF Len(inst.vals) >= 1 THEN Some(inst.vals[1]) ELSE None,
             IF Len(inst.vals) >= 2 THEN Some(inst.vals[2]) ELSE None>>
      [] OTHER -> <<None, None>>

\* Instruction::destination() -> Option<&Symbol>
destination(inst) ==
    IF inst.op \in BinaryOps \cup UnaryOps \cup {"Const", "Id"}
    THEN Some(inst.sym)
    ELSE None

\* Function::remove_dead_instructions(): drop every Nop, keep the order.
remove_dead_instructions_unordered(instructions) ==
    LET kept == SelectSeq(instructions, LAMBDA i : i.op # "Nop")
    IN  [k \in 1..Len(kept) |-> kept[Len(kept) + 1 - k]]

remove_dead_instructions(instructions) ==
    SelectSeq(instructions, LAMBDA i : i.op # "Nop")

----------------------------------------------------------------------------
\* DCE::tdce

\* The symbols one instruction adds to use_defs (the match on operands()).
UsesOf(inst) ==
    LET ops == operands(inst)
    IN  CASE ops[1] # None /\ ops[2] # None ->
               IF ops[1][1].kind = "StorageLocation" /\ ops[2][1].kind = "StorageLocation"
               THEN {ops[1][1].sym, ops[2][1].sym}
               ELSE {}
          [] ops[1] # None /\ ops[2] = None ->
               IF ops[1][1].kind = "StorageLocation" THEN {ops[1][1].sym} ELSE {}
          [] OTHER -> {}

\* First scan: the use_defs set.
use_defs(worklist) == UNION {UsesOf(worklist[i]) : i \in DOMAIN worklist}

\* The test of the second scan.
IsDead_orNoDestination(inst, defs) ==
    destination(inst) = None \/ destination(inst)[1] \notin defs

IsDead(inst, defs) ==
    destination(inst) # None /\ destination(inst)[1] \notin defs

\* Second scan: every dead instruction is replaced by Nop.
mark(worklist, defs) ==
    [i \in DOMAIN worklist |-> IF IsDead(worklist[i], defs) THEN Nop ELSE worklist[i]]

\* Plausible faults of tdce, used to show that the properties below depend
\* on the code.
tdce_staleCount(f) ==
    LET defs == use_defs(f)
        marked == mark(f, defs)
    IN  [function |-> remove_dead_instructions(marked),
         use_defs |-> defs,
         ret      |-> Len(f) # Len(marked)]

tdce_noCompaction(f) ==
    LET defs == use_defs(f)
        marked == mark(f, defs)
    IN  [function |-> marked,
         use_defs |-> defs,
         ret      |-> Len(f) # Len(remove_dead_instructions(marked))]

tdce_candidatesLeft(f) ==
    LET defs == use_defs(f)
        after == remove_dead_instructions(mark(f, defs))
    IN  [function |-> after,
         use_defs |-> defs,
         ret      |-> \E i \in DOMAIN after : destination(after[i]) # None]

tdce(f) ==
    LET candidates == Len(f)
        defs == use_defs(f)
        after == remove_dead_instructions(mark(f, defs))
    IN  [function |-> after,
         use_defs |-> defs,
         ret      |-> candidates # Len(after)]

----------------------------------------------------------------------------
\* The functions handed to DCE.

a == Sym("a", "Int")

b == Sym("b", "Int")

fn == Sym("f", "Unit")

Symbols == {a, b}

One == ConstantLiteral(IntLit(1))

Instructions ==
    {Const(d, IntLit(1)) : d \in Symbols}
    \cup {Id(b, StorageLocation(a)), Id(a, StorageLocation(b)), Id(a, StorageLocation(a))}
    \cup {Add(b, StorageLocation(a), StorageLocation(b)), Add(b, StorageLocation(a), One)}
    \cup {Not(a, StorageLocation(b))}
    \cup {Return(StorageLocation(b)), Return(One)}
    \cup {Branch(a, 0, 1), Jump(0), Label(0), Nop}
    \cup {Call(fn, <<StorageLocation(a)>>), Call(fn, <<One, One, StorageLocation(b)>>)}

SeqsUpTo(S, n) == UNION {[1..k -> S] : k \in 0..n}

Functions == SeqsUpTo(Instructions, MaxLen)

----------------------------------------------------------------------------
\* Spec: DCE::run, twice in succession.

Init ==
    /\ function \in Functions
    /\ input = function
    /\ pc = "idle"
    /\ run = 0
    /\ calls = 0
    /\ ret = FALSE
    /\ prev = function
    /\ used = {}
    /\ once = <<>>
    /\ expr_pool = <<>>
    /\ stmt_pool = <<>>
    /\ added = <<>>
    /\ text = <<>>

\* A caller (FunctionRewriter::rewrite) enters DCE::run.
RunStart ==
    /\ pc = "idle"
    /\ run < MaxRuns
    /\ pc' = "loop"
    /\ run' = run + 1
    /\ calls' = 0
    /\ UNCHANGED <<function, input, ret, prev, used, once, expr_pool, stmt_pool, added, text>>

\* DCE::run with `if` in place of `while`: one tdce call, then return.
TdceCall_once ==
    /\ pc = "loop"
    /\ LET r == tdce(function)
       IN  /\ function' = r.function
           /\ used' = r.use_defs
           /\ ret' = r.ret
           /\ pc' = "idle"
           /\ once' = IF run = 1 THEN r.function ELSE once
    /\ prev' = function
    /\ calls' = calls + 1
    /\ UNCHANGED <<input, run, expr_pool, stmt_pool, added, text>>

\* One iteration of `while Self::tdce(function) {}`: the call and the test.
TdceCall ==
    /\ pc = "loop"
    /\ LET r == tdce(function)
       IN  /\ function' = r.function
           /\ used' = r.use_defs
           /\ ret' = r.ret
           /\ pc' = IF r.ret THEN "loop" ELSE "idle"
           /\ once' = IF ~r.ret /\ run = 1 THEN r.function ELSE once
    /\ prev' = function
    /\ calls' = calls + 1
    /\ UNCHANGED <<input, run, expr_pool, stmt_pool, added, text>>

Next == RunStart \/ TdceCall

Spec == Init /\ [][Next]_vars

----------------------------------------------------------------------------
\* LVN::run.  The body forms the basic blocks, declares four empty tables and
\* a closure that is never called, and returns: the function is not rewritten.
\* LVN::cse and LVN::fold have empty bodies.

Max(S) == CHOOSE m \in S : \A k \in S : k <= m

\* Graph::form_basic_blocks: a block begins at the first instruction, at every
\* Label and right after every Jump, Branch and Return.
IsLeader(f, i) ==
    \/ i = 1
    \/ f[i].op = "Label"
    \/ f[i - 1].op \in {"Jump", "Branch", "Return"}

BlockStart(f, i) == Max({k \in 1..i : IsLeader(f, k)})

BlockEnd(f, i) ==
    IF \E n \in (i + 1)..Len(f) : IsLeader(f, n)
    THEN (CHOOSE n \in (i + 1)..Len(f) :
              IsLeader(f, n) /\ \A m \in (i + 1)..(n - 1) : ~IsLeader(f, m)) - 1
    ELSE Len(f)

\* The blocks as index ranges <<first, last>> into the function.
form_basic_blocks(f) ==
    {<<k, BlockEnd(f, k)>> : k \in {m \in DOMAIN f : IsLeader(f, m)}}

\* The literal a symbol is known to hold just before instruction i, looking
\* back as far as instruction lo: its latest definition there is a Const.
KnownConstFrom(f, lo, i, s) ==
    LET ks == {k \in lo..(i - 1) : destination(f[k]) = Some(s)}
    IN  IF ks # {} /\ f[Max(ks)].op = "Const" THEN Some(f[Max(ks)].lit) ELSE None

\* The same within the basic block of instruction i.
KnownConst(f, i, s) == KnownConstFrom(f, BlockStart(f, i), i, s)

OperandConst(f, i, v) ==
    IF v.kind = "ConstantLiteral" THEN Some(v.lit) ELSE KnownConst(f, i, v.sym)

\* A fold of every Add and Div over known constants, a zero divisor included.
LVN_run_foldAll(f) ==
    [i \in DOMAIN f |->
        IF f[i].op \in {"Add", "Div"}
           /\ OperandConst(f, i, f[i].vals[1]) # None
           /\ OperandConst(f, i, f[i].vals[2]) # None
        THEN LET l == OperandConst(f, i, f[i].vals[1])[1].val
                 r == OperandConst(f, i, f[i].vals[2])[1].val
             IN  Const(f[i].sym, IntLit(IF f[i].op = "Add" THEN l + r
                                        ELSE IF r = 0 THEN 0 ELSE l \div r))
        ELSE f[i]]

\* A fold of every Add over constants known from anywhere earlier in the
\* function, block boundaries ignored.
LVN_run_foldAcrossBlocks(f) ==
    [i \in DOMAIN f |->
        IF f[i].op = "Add"
           /\ \A k \in 1..2 : (/\ f[i].vals[k].kind = "StorageLocation"
                               /\ KnownConstFrom(f, 1, i, f[i].vals[k].sym) # None)
        THEN Const(f[i].sym, IntLit(KnownConstFrom(f, 1, i, f[i].vals[1].sym)[1].val
                                    + KnownConstFrom(f, 1, i, f[i].vals[2].sym)[1].val))
        ELSE f[i]]

\* A common-subexpression rewrite that reuses the first earlier Add of the
\* block with the same operands, whatever was redefined in between.
LVN_run_cseStale(f) ==
    [j \in DOMAIN f |->
        LET same == {i \in BlockStart(f, j)..(j - 1) :
                        f[i].op = "Add" /\ f[i].vals = f[j].vals /\ f[i].sym # f[j].sym}
        IN  IF f[j].op = "Add" /\ same # {}
            THEN Id(f[j].sym, StorageLocation(f[CHOOSE i \in same : \A m \in same : i <= m].sym))
            ELSE f[j]]

LVN_run(f) ==
    LET worklist == form_basic_blocks(f)
    IN  f

x == Sym("x", "Int")

y == Sym("y", "Int")

LVNInstructions ==
    {Const(a, IntLit(4)), Const(b, IntLit(2)), Const(b, IntLit(0))}
    \cup {Add(x, StorageLocation(a), StorageLocation(b)),
          Add(y, StorageLocation(a), StorageLocation(b)),
          Div(y, StorageLocation(a), StorageLocation(b))}
    \cup {Id(a, StorageLocation(y)), Return(StorageLocation(y)), Label(0)}

LVNFunctions == SeqsUpTo(LVNInstructions, MaxLen)

InitLVN ==
    /\ function \in LVNFunctions
    /\ input = function
    /\ pc = "idle"
    /\ run = 0
    /\ calls = 0
    /\ ret = FALSE
    /\ prev = function
    /\ used = {}
    /\ once = <<>>
    /\ expr_pool = <<>>
    /\ stmt_pool = <<>>
    /\ added = <<>>
    /\ text = <<>>

LVNRun ==
    /\ pc = "idle"
    /\ function' = LVN_run(function)
    /\ prev' = function
    /\ pc' = "lvn_done"
    /\ UNCHANGED <<input, run, calls, ret, used, once, expr_pool, stmt_pool, added, text>>

NextLVN == LVNRun

SpecLVN == InitLVN /\ [][NextLVN]_vars

----------------------------------------------------------------------------
\* ExprPool and StmtPool of ast.rs: arenas addressed by insertion index.

\* Expr::IntLiteral(i32)
IntLiteral(value) == [node |-> "IntLiteral", arg |-> value]

\* Stmt::Return(ExprRef) and Stmt::Expr(ExprRef); arg is the ExprRef's index.
StmtReturn(expr_ref) == [node |-> "Return", arg |-> expr_ref]

StmtExpr(expr_ref) == [node |-> "Expr", arg |-> expr_ref]

\* ExprPool::add with the handle taken after the push.
ExprPool_add_lenAfterPush(nodes, expr) ==
    [nodes |-> Append(nodes, expr), node_ref |-> Len(nodes) + 1]

\* ExprPool::add: the handle is the length before the push.
ExprPool_add(nodes, expr) ==
    [nodes |-> Append(nodes, expr), node_ref |-> Len(nodes)]

\* ExprPool::get: Vec::get on the handle's index (0-based).
ExprPool_get(nodes, node_ref) ==
    IF node_ref < Len(nodes) THEN Some(nodes[node_ref + 1]) ELSE None

\* StmtPool::add
StmtPool_add(nodes, stmt) ==
    [nodes |-> Append(nodes, stmt), node_ref |-> Len(nodes)]

\* StmtPool::get
StmtPool_get(nodes, node_ref) ==
    IF node_ref < Len(nodes) THEN Some(nodes[node_ref + 1]) ELSE None

Exprs == {IntLiteral(42), IntLiteral(7)}

\* ExprPool::new and StmtPool::new: both arenas empty.
InitPool ==
    /\ expr_pool = <<>>
    /\ stmt_pool = <<>>
    /\ added = <<>>
    /\ function = <<>>
    /\ input = <<>>
    /\ pc = "idle"
    /\ run = 0
    /\ calls = 0
    /\ ret = FALSE
    /\ prev = <<>>
    /\ used = {}
    /\ once = <<>>
    /\ text = <<>>

\* expr_pool.add(expr)
AddExpr ==
    /\ Len(expr_pool) < MaxNodes
    /\ \E expr \in Exprs :
          LET r == ExprPool_add(expr_pool, expr)
          IN  /\ expr_pool' = r.nodes
              /\ added' = Append(added, [pool |-> "expr", node_ref |-> r.node_ref, node |-> expr])
    /\ UNCHANGED <<stmt_pool, function, input, pc, run, calls, ret, prev, used, once, text>>

\* stmt_pool.add(stmt), the statement holding the handle of the expression
\* added last (can_create_and_use_node_pool).
AddStmt ==
    /\ Len(stmt_pool) < MaxNodes
    /\ expr_pool # <<>>
    /\ \E stmt \in {StmtReturn(Len(expr_pool) - 1), StmtExpr(Len(expr_pool) - 1)} :
          LET r == StmtPool_add(stmt_pool, stmt)
          IN  /\ stmt_pool' = r.nodes
              /\ added' = Append(added, [pool |-> "stmt", node_ref |-> r.node_ref, node |-> stmt])
    /\ UNCHANGED <<expr_pool, function, input, pc, run, calls, ret, prev, used, once, text>>

NextPool == AddExpr \/ AddStmt

SpecPool == InitPool /\ [][NextPool]_vars

----------------------------------------------------------------------------
\* impl fmt::Display for Type, Literal, Label, Value and Instruction.

\* Instruction::opcode(): the variant's own OPCode.
opcode(inst) == inst.op

Digits == <<"0", "1", "2", "3", "4", "5", "6", "7", "8", "9">>

\* "{value}" of a non-negative integer.
RECURSIVE Decimal(_)
Decimal(n) ==
    IF n < 10 THEN Digits[n + 1] ELSE Decimal(n \div 10) \o Digits[(n % 10) + 1]

\* Display for Type
TypeText(type) ==
    CASE type = "Unit" -> ""
      [] type = "Int" -> "int"
      [] type = "Bool" -> "bool"
      [] type = "Char" -> "char"

\* Display for Literal
LiteralText(l) == IF l.tag = "Empty" THEN "NONE" ELSE Decimal(l.val)

\* Display for Label
LabelText(n) == "__LABEL_" \o Decimal(n)

\* Display for Value
ValueText(v) ==
    IF v.kind = "StorageLocation" THEN v.sym.name ELSE LiteralText(v.lit)

\* The word each arm of Display for Instruction writes after " = ".
ArmWord(op) ==
    CASE op = "Add" -> "add"
      [] op = "Sub" -> "sub"
      [] op = "Mul" -> "mul"
      [] op = "Div" -> "div"
      [] op = "And" -> "and"
      [] op = "Neg" -> "neg"
      [] op = "Not" -> "not"
      [] op = "Id" -> "id"
      [] op \in {"Or", "Eq", "Neq", "Lt", "Lte", "Gt", "Gte"} -> "or"

RECURSIVE ArgsText(_)
ArgsText(args) ==
    IF args = <<>> THEN "" ELSE ValueText(Head(args)) \o " " \o ArgsText(Tail(args))

\* Display for Instruction
fmt(inst) ==
    CASE inst.op = "Const" ->
           inst.sym.name \o ": " \o TypeText(inst.sym.type) \o " const = " \o LiteralText(inst.lit)
      [] inst.op \in BinaryOps ->
           inst.sym.name \o " : " \o TypeText(inst.sym.type) \o " = " \o ArmWord(inst.op)
               \o " " \o ValueText(inst.vals[1]) \o " " \o ValueText(inst.vals[2])
      [] inst.op \in UnaryOps \cup {"Id"} ->
           inst.sym.name \o " : " \o TypeText(inst.sym.type) \o " = " \o ArmWord(inst.op)
               \o " " \o ValueText(inst.vals[1])
      [] inst.op = "Return" -> "return " \o ValueText(inst.vals[1])
      [] inst.op = "Call" -> "@" \o inst.sym.name \o ArgsText(inst.vals)
      [] inst.op = "Jump" -> "jump " \o LabelText(inst.labels[1])
      [] inst.op = "Branch" ->
           "br " \o inst.sym.name \o " " \o LabelText(inst.labels[1])
               \o " " \o LabelText(inst.labels[2])
      [] inst.op = "Nop" -> "nop"
      [] inst.op = "Label" -> "__LABEL_" \o Decimal(inst.labels[1])

FmtInstructions ==
    {Binary(op, b, StorageLocation(a), StorageLocation(b)) : op \in BinaryOps}
    \cup {Inst(op, b, <<StorageLocation(a)>>, Empty, <<>>) : op \in UnaryOps}
    \cup {Id(b, StorageLocation(a)), Const(b, IntLit(42))}
    \cup {Return(StorageLocation(a)), Return(One)}
    \cup {Jump(0), Branch(a, 0, 1), Label(0), Nop, Call(fn, <<StorageLocation(a), One>>)}

InitFmt ==
    /\ function \in [1..2 -> FmtInstructions]
    /\ input = function
    /\ pc = "idle"
    /\ run = 0
    /\ calls = 0
    /\ ret = FALSE
    /\ prev = function
    /\ used = {}
    /\ once = <<>>
    /\ expr_pool = <<>>
    /\ stmt_pool = <<>>
    /\ added = <<>>
    /\ text = <<>>

\* format!("{inst}") for every instruction of the function.
Render ==
    /\ pc = "idle"
    /\ text' = [i \in DOMAIN function |-> fmt(function[i])]
    /\ pc' = "rendered"
    /\ UNCHANGED <<function, input, run, calls, ret, prev, used, once, expr_pool, stmt_pool, added>>

NextFmt == Render

SpecFmt == InitFmt /\ [][NextFmt]_vars

----------------------------------------------------------------------------
\* Vocabulary of the properties.

\* Every symbol an instruction reads: its StorageLocation values and, for a
\* Branch, its condition.
Reads(inst) ==
    {inst.vals[k].sym : k \in {j \in DOMAIN inst.vals : inst.vals[j].kind = "StorageLocation"}}
    \cup (IF inst.op = "Branch" THEN {inst.sym} ELSE {})

ReadsOf(f) == UNION {Reads(f[i]) : i \in DOMAIN f}

DefinedIn(f) == {f[i].sym : i \in {j \in DOMAIN f : destination(f[j]) # None}}

DefCount(f, s) == Cardinality({i \in DOMAIN f : destination(f[i]) = Some(s)})

Count(f, inst) == Cardinality({i \in DOMAIN f : f[i] = inst})

\* Instruction i of f is a Div whose divisor holds a known constant zero.
DivByKnownZero(f, i) ==
    /\ f[i].op = "Div"
    /\ OperandConst(f, i, f[i].vals[2]) = Some(IntLit(0))

\* Straight-line evaluation of a block: a zero divisor traps, a Return ends
\* the run, a Label does nothing.  The values of the inputs below stay far
\* inside the i32 range, so no sum wraps.
LVNSymbols == {a, b, x, y}

Envs == [LVNSymbols -> 0..1]

ValueOf(v, env) == IF v.kind = "ConstantLiteral" THEN v.lit.val ELSE env[v.sym]

Step(inst, st) ==
    CASE inst.op = "Const" -> [st EXCEPT !.val[inst.sym] = inst.lit.val]
      [] inst.op = "Id" -> [st EXCEPT !.val[inst.sym] = ValueOf(inst.vals[1], st.val)]
      [] inst.op = "Add" ->
           [st EXCEPT !.val[inst.sym] =
               ValueOf(inst.vals[1], st.val) + ValueOf(inst.vals[2], st.val)]
      [] inst.op = "Div" ->
           IF ValueOf(inst.vals[2], st.val) = 0
           THEN [st EXCEPT !.trap = TRUE]
           ELSE [st EXCEPT !.val[inst.sym] =
                    ValueOf(inst.vals[1], st.val) \div ValueOf(inst.vals[2], st.val)]
      [] OTHER -> st

RECURSIVE Eval(_, _, _)
Eval(f, i, st) ==
    IF i > Len(f) \/ st.trap \/ f[i].op = "Return"
    THEN st
    ELSE Eval(f, i + 1, Step(f[i], st))

Run(f, env) == Eval(f, 1, [trap |-> FALSE, val |-> env])

\* The functions a block is placed in to compare its rewriting: the block
\* alone and the block after one more instruction.
LVNPrefixes == SeqsUpTo(LVNInstructions, 1)

\* The mnemonic of an opcode in the textual form of the IR.
Mnemonic(op) ==
    CASE op = "Const" -> "const"
      [] op = "Add" -> "add"
      [] op = "Sub" -> "sub"
      [] op = "Mul" -> "mul"
      [] op = "Div" -> "div"
      [] op = "And" -> "and"
      [] op = "Or" -> "or"
      [] op = "Eq" -> "eq"
      [] op = "Neq" -> "neq"
      [] op = "Lt" -> "lt"
      [] op = "Lte" -> "lte"
      [] op = "Gt" -> "gt"
      [] op = "Gte" -> "gte"
      [] op = "Not" -> "not"
      [] op = "Neg" -> "neg"
      [] op = "Id" -> "id"

\* Two instructions that differ in their opcode and in nothing else.
DifferOnlyInOpcode(i1, i2) ==
    /\ opcode(i1) # opcode(i2)
    /\ i1.sym = i2.sym /\ i1.vals = i2.vals /\ i1.lit = i2.lit /\ i1.labels = i2.labels

RECURSIVE IsSubseq(_, _)
IsSubseq(s, t) ==
    IF s = <<>> THEN TRUE
    ELSE IF t = <<>> THEN FALSE
    ELSE IF Head(s) = Head(t) THEN IsSubseq(Tail(s), Tail(t))
    ELSE IsSubseq(s, Tail(t))

----------------------------------------------------------------------------
\* C1: DCE is idempotent.  A DCE::run after the first leaves the function
\* exactly as the first run left it, and its first (and only) tdce call
\* returns false.
C1_Idempotent ==
    (run >= 2 /\ calls >= 1) => (function = once /\ ret = FALSE /\ calls = 1)

C1_Witness ==
    /\ run = 2 /\ calls = 1 /\ pc = "idle"
    /\ Len(once) < Len(input) /\ Len(once) > 0

\* C2: no dangling use.  If every symbol read in the input is the destination
\* of some input instruction, every symbol read in the function left by
\* DCE::run is the destination of some instruction of that function.
C2_NoDanglingUse ==
    (pc = "idle" /\ run >= 1 /\ ReadsOf(input) \subseteq DefinedIn(input))
        => ReadsOf(function) \subseteq DefinedIn(function)

\* C3: a tdce call removes no definition of a symbol that some instruction of
\* the function it was called on reads.
C3_UsedDefinitionsRetained ==
    calls >= 1 => \A s \in ReadsOf(prev) : DefCount(function, s) = DefCount(prev, s)

\* C4: the used set of a tdce call holds every symbol read by an instruction
\* of the function it was called on.
C4_UsedSetComplete ==
    calls >= 1 => ReadsOf(prev) \subseteq used

\* C5: every Return, Jump, Branch, Label and Call of the input is still in
\* the function, the same number of times, whatever DCE has done so far.
C5_NoDestinationKept ==
    \A inst \in Instructions :
        inst.op \in {"Return", "Jump", "Branch", "Label", "Call"}
            => Count(function, inst) = Count(input, inst)

C5_Witness ==
    /\ pc = "idle" /\ run >= 1
    /\ Len(function) < Len(input)
    /\ \E i \in DOMAIN function : function[i].op \in {"Return", "Jump", "Branch", "Label", "Call"}

\* C6: the function after a tdce call is a subsequence of the function before
\* it, and the function during and after DCE::run one of the input.
C6_Subsequence ==
    IsSubseq(function, prev) /\ IsSubseq(function, input)

C6_Witness ==
    /\ calls >= 1
    /\ Len(function) < Len(prev)
    /\ Len(function) >= 2
    /\ function[1] # function[2]

\* C7: a tdce call that returns true leaves strictly fewer instructions, and
\* DCE::run makes at most (instruction count of the input + 1) tdce calls.
C7_Terminates ==
    /\ calls <= Len(input) + 1
    /\ (calls >= 1 /\ ret) => Len(function) < Len(prev)

C7_Witness ==
    /\ pc = "idle" /\ run = 1
    /\ Len(input) >= 2
    /\ calls = Len(input) + 1

\* C8: LVN folds an Add whose operands both hold known constants into a Const
\* of the sum.
C8_ConstantFolded ==
    pc = "lvn_done" =>
        \A i \in DOMAIN input :
            (/\ input[i].op = "Add"
             /\ OperandConst(input, i, input[i].vals[1]) # None
             /\ OperandConst(input, i, input[i].vals[2]) # None)
            => function[i] = Const(input[i].sym,
                                   IntLit(OperandConst(input, i, input[i].vals[1])[1].val
                                          + OperandConst(input, i, input[i].vals[2])[1].val))

\* C9: LVN leaves a Div whose divisor is a known constant zero as it was, and
\* the pass returns.
C9_DivByZeroNotFolded ==
    pc = "lvn_done" =>
        (Len(function) = Len(input)
         /\ \A i \in DOMAIN input : DivByKnownZero(input, i) => function[i] = input[i])

C9_Witness ==
    /\ pc = "lvn_done"
    /\ \E i \in DOMAIN input :
          DivByKnownZero(input, i) /\ OperandConst(input, i, input[i].vals[1]) # None

\* C10: LVN rewrites the second of two equal Adds of one block, with no
\* definition of their operands or of the first destination in between and
\* operands that are not known constants, to an Id of the first destination.
C10_CommonSubexpression ==
    pc = "lvn_done" =>
        \A i \in DOMAIN input : \A j \in DOMAIN input :
            (/\ i < j
             /\ input[i].op = "Add" /\ input[j].op = "Add"
             /\ input[i].vals = input[j].vals
             /\ input[i].sym # input[j].sym
             /\ input[i].sym \notin Reads(input[i])
             /\ \A k \in (i + 1)..(j - 1) :
                   destination(input[k]) = None
                   \/ input[k].sym \notin Reads(input[i]) \cup {input[i].sym}
             /\ \A v \in {input[j].vals[1], input[j].vals[2]} : OperandConst(input, j, v) = None)
            => function[j] = Id(input[j].sym, StorageLocation(input[i].sym))

\* C11: for every initial environment, the function LVN leaves evaluates to
\* the same final bindings (and the same trap) as the function it was given,
\* also when the block redefines a symbol.
C11_ResultsPreserved ==
    pc = "lvn_done" => \A env \in Envs : Run(function, env) = Run(input, env)

C11_Witness ==
    /\ pc = "lvn_done"
    /\ \A i \in DOMAIN input : input[i].op # "Label"
    /\ \E i \in DOMAIN input : \E j \in DOMAIN input :
          /\ i < j
          /\ input[i].op = "Add" /\ input[j].op = "Add"
          /\ input[i].vals = input[j].vals
          /\ input[i].sym # input[j].sym
          /\ \E m \in (i + 1)..(j - 1) : destination(input[m]) = Some(a)

\* C12: LVN is local.  A basic block of the input is rewritten exactly as the
\* same block is when it stands in another function, and definitions of one
\* name in two different blocks are both left as they are.
C12_Local ==
    pc = "lvn_done" =>
        /\ Len(function) = Len(input)
        /\ \A r \in form_basic_blocks(input) : \A p \in LVNPrefixes :
              LET blk == SubSeq(input, r[1], r[2])
                  g == p \o blk
              IN  <<Len(p) + 1, Len(g)>> \in form_basic_blocks(g)
                    => SubSeq(LVN_run(g), Len(p) + 1, Len(g)) = SubSeq(function, r[1], r[2])
        /\ \A i \in DOMAIN input : \A j \in DOMAIN input :
              (/\ BlockStart(input, i) # BlockStart(input, j)
               /\ destination(input[i]) # None
               /\ destination(input[i]) = destination(input[j]))
              => (function[i] = input[i] /\ function[j] = input[j])

C12_Witness ==
    /\ pc = "lvn_done"
    /\ \E i \in DOMAIN input : \E j \in DOMAIN input :
          /\ BlockStart(input, i) # BlockStart(input, j)
          /\ input[i].op = "Add" /\ input[j].op = "Add"
          /\ input[i].sym = input[j].sym

\* C13: arena handles are stable.  The handle returned by every add so far is
\* the number of nodes added to that pool before it, get on it still returns
\* exactly the node that was added, and each pool holds only its own adds.
C13_HandlesStable ==
    /\ \A k \in DOMAIN added :
          /\ added[k].node_ref
                = Cardinality({m \in 1..(k - 1) : added[m].pool = added[k].pool})
          /\ added[k].pool = "expr" => ExprPool_get(expr_pool, added[k].node_ref) = Some(added[k].node)
          /\ added[k].pool = "stmt" => StmtPool_get(stmt_pool, added[k].node_ref) = Some(added[k].node)
    /\ Len(expr_pool) = Cardinality({k \in DOMAIN added : added[k].pool = "expr"})
    /\ Len(stmt_pool) = Cardinality({k \in DOMAIN added : added[k].pool = "stmt"})

C13_Witness ==
    /\ Len(added) >= 4
    /\ added[1].pool = "expr"
    /\ \E k \in 2..Len(added) : added[k].pool = "expr" /\ added[k].node # added[1].node
    /\ \E k \in 2..Len(added) : added[k].pool = "stmt"

\* C14: in the function DCE::run leaves, the destination of every instruction
\* that has one is read by some instruction of that function.
C14_FixpointNoDeadDefinition ==
    (pc = "idle" /\ run >= 1) => DefinedIn(function) \subseteq ReadsOf(function)

C14_Witness ==
    /\ pc = "idle" /\ run = 1
    /\ calls >= 3
    /\ function # <<>>

\* C15: tdce returns true exactly when the instruction count changed, and on
\* a function without Nop in which every destination is read it changes
\* nothing and returns false.
C15_ReturnValue ==
    calls >= 1 =>
        /\ ret <=> (Len(function) # Len(prev))
        /\ (/\ DefinedIn(prev) \subseteq ReadsOf(prev)
            /\ \A i \in DOMAIN prev : prev[i].op # "Nop")
           => (function = prev /\ ~ret)

\* C16: after a tdce call the function holds no Nop, whether the call put it
\* there or the input already had it.
C16_NoNopLeft ==
    calls >= 1 => \A i \in DOMAIN function : function[i].op # "Nop"

C16_Witness ==
    /\ calls >= 1
    /\ function # <<>>
    /\ \E i \in DOMAIN input : input[i].op = "Nop"
    /\ \E i \in DOMAIN prev : IsDead(prev[i], used)

\* C17: the rendering of an instruction names its own opcode.  An operator
\* instruction with a destination renders as `<dst>: <type> = <opcode>
\* <operands...>` with the mnemonic of its opcode, instructions that differ
\* only in opcode render differently, and a Return renders as `ret <value>`.
C17_RenderingNamesOpcode ==
    pc = "rendered" =>
        /\ \A i \in DOMAIN function : \A j \in DOMAIN function :
              (destination(function[i]) # None /\ DifferOnlyInOpcode(function[i], function[j]))
                  => text[i] # text[j]
        /\ \A i \in DOMAIN function :
              function[i].op = "Return" => text[i] = "ret " \o ValueText(function[i].vals[1])
        /\ \A i \in DOMAIN function :
              function[i].op \in BinaryOps =>
                  text[i] = function[i].sym.name \o ": " \o TypeText(function[i].sym.type)
                              \o " = " \o Mnemonic(function[i].op)
                              \o " " \o ValueText(function[i].vals[1])
                              \o " " \o ValueText(function[i].vals[2])

====
